---- MODULE Spec2Model ----
(***************************************************************************)
(* Model of the MathGame component (src/components/math-game.tsx): the     *)
(* 4x4 grid game whose running value is combined with an adjacent cell by  *)
(* an operation chosen from the direction of the move.                     *)
(*                                                                         *)
(* Representation                                                          *)
(*  - number | null and {row, col} | null are modelled as sequences of     *)
(*    length at most one: null is <<>>, a present value x is <<x>>.        *)
(*  - numbers are IEEE 754 doubles, as in JavaScript: the arithmetic of    *)
(*    the moves and the two-decimal rounding of the divide case are        *)
(*    computed in binary floating point, with the rounding of each         *)
(*    operation.                                                           *)
(*  - React state is the committed state of the last render; the game-over *)
(*    check is a passive effect: it is scheduled by a commit that changed  *)
(*    one of its dependencies, it reads the values of the render that      *)
(*    scheduled it, and the runtime flushes a pending effect before it     *)
(*    renders the next update.                                             *)
(*  - Spec holds the grid by value.  SpecHeap adds the arrays and cell     *)
(*    objects behind it: heap maps the address of every live array and     *)
(*    object to its contents, gridRef is the array that the grid state     *)
(*    holds, and snapRef is a reference to an earlier grid that a reader   *)
(*    of the state kept, with snapValue what that grid showed when the     *)
(*    reference was taken.                                                 *)
(***************************************************************************)
EXTENDS Integers, Sequences, FiniteSets, TLC

VARIABLES grid, currentValue, selectedCell, score, moves, gameOver,
          effectPending, lastTap, dFrom, dTo, dOp,
          heap, gridRef, snapRef, snapValue

gameState == <<grid, currentValue, selectedCell, score, moves, gameOver>>
dirVars == <<dFrom, dTo, dOp>>
heapVars == <<heap, gridRef, snapRef, snapValue>>
vars == <<grid, currentValue, selectedCell, score, moves, gameOver,
          effectPending, lastTap, dFrom, dTo, dOp,
          heap, gridRef, snapRef, snapValue>>

GRID_SIZE == 4

\* The factor of the two-decimal rounding: Math.round(result * 100) / 100.
Scale == 100

\* Bounds of the model.
NumSeeds == 2
MaxMoves == 4
MaxHeapMoves == 2
FreeCells == 6

null == <<>>
Some(x) == <<x>>
Get(o) == o[1]

Index == 0 .. (GRID_SIZE - 1)
Coord == [row : Index, col : Index]
\* Coordinates a caller can pass to handleCellPress: every cell of the grid,
\* and one coordinate just outside the grid on each side and past a corner.
OutOfBounds == {<<-1, 0>>, <<GRID_SIZE, 0>>, <<0, -1>>, <<0, GRID_SIZE>>,
                <<GRID_SIZE, GRID_SIZE>>}
TapCoords == (Index \X Index) \cup OutOfBounds
Seeds == 0 .. (NumSeeds - 1)

Abs(x) == IF x < 0 THEN -x ELSE x

(***************************************************************************)
(* JavaScript numbers.  A number is an IEEE 754 double: sign, mantissa and *)
(* exponent, with value (-1)^neg * m * 2^e.  The mantissa is a natural     *)
(* number of at most Precision bits, kept odd (or zero) so that every      *)
(* value has one representation, and written as a little-endian sequence   *)
(* of limbs in base 2^15.  Every operation computes the exact result and   *)
(* rounds it to Precision bits, ties to even.  The game never leaves the   *)
(* normal range, and -0 is not told apart from 0.                          *)
(***************************************************************************)
Precision == 53
LimbBits == 15
Base == 2 ^ LimbBits

RECURSIVE BTrim(_)
BTrim(a) ==
  IF a = <<>> THEN <<>>
  ELSE IF a[Len(a)] = 0 THEN BTrim(SubSeq(a, 1, Len(a) - 1))
  ELSE a

RECURSIVE BFromNat(_)
BFromNat(n) == IF n = 0 THEN <<>> ELSE <<n % Base>> \o BFromNat(n \div Base)

RECURSIVE BAddC(_, _, _)
BAddC(a, b, c) ==
  IF a = <<>> /\ b = <<>> THEN (IF c = 0 THEN <<>> ELSE <<c>>)
  ELSE LET x == IF a = <<>> THEN 0 ELSE a[1]
           y == IF b = <<>> THEN 0 ELSE b[1]
           t == x + y + c
       IN  <<t % Base>> \o BAddC(IF a = <<>> THEN <<>> ELSE Tail(a),
                                 IF b = <<>> THEN <<>> ELSE Tail(b),
                                 t \div Base)

BAdd(a, b) == BAddC(a, b, 0)

\* a - b for a >= b.
RECURSIVE BSubC(_, _, _)
BSubC(a, b, c) ==
  IF a = <<>> THEN <<>>
  ELSE LET y == IF b = <<>> THEN 0 ELSE b[1]
           t == a[1] - y - c
       IN  <<IF t < 0 THEN t + Base ELSE t>>
             \o BSubC(Tail(a), IF b = <<>> THEN <<>> ELSE Tail(b),
                      IF t < 0 THEN 1 ELSE 0)

BSub(a, b) == BTrim(BSubC(a, b, 0))

\* -1, 0 or 1 as a < b, a = b or a > b.
RECURSIVE BCmpFrom(_, _, _)
BCmpFrom(a, b, i) ==
  IF i = 0 THEN 0
  ELSE IF a[i] < b[i] THEN -1
  ELSE IF a[i] > b[i] THEN 1
  ELSE BCmpFrom(a, b, i - 1)

BCmp(a, b) ==
  IF Len(a) < Len(b) THEN -1
  ELSE IF Len(a) > Len(b) THEN 1
  ELSE BCmpFrom(a, b, Len(a))

\* a * k for 0 < k < Base.
RECURSIVE BMulC(_, _, _)
BMulC(a, k, c) ==
  IF a = <<>> THEN (IF c = 0 THEN <<>> ELSE <<c>>)
  ELSE LET t == a[1] * k + c
       IN  <<t % Base>> \o BMulC(Tail(a), k, t \div Base)

BMulSmall(a, k) == BMulC(a, k, 0)

\* Quotient and remainder of a by d, 0 < d < Base.
RECURSIVE BDivFrom(_, _, _, _, _)
BDivFrom(a, d, i, r, acc) ==
  IF i = 0 THEN [q |-> BTrim(acc), r |-> r]
  ELSE LET t == r * Base + a[i]
       IN  BDivFrom(a, d, i - 1, t % d, <<t \div d>> \o acc)

BDivSmall(a, d) == BDivFrom(a, d, Len(a), 0, <<>>)

RECURSIVE BitLenNat(_)
BitLenNat(n) == IF n = 0 THEN 0 ELSE 1 + BitLenNat(n \div 2)

BBitLen(a) ==
  IF a = <<>> THEN 0 ELSE LimbBits * (Len(a) - 1) + BitLenNat(a[Len(a)])

BShl(a, k) ==
  IF a = <<>> THEN <<>>
  ELSE [i \in 1 .. (k \div LimbBits) |-> 0] \o BMulSmall(a, 2 ^ (k % LimbBits))

BShr(a, k) ==
  IF Len(a) <= k \div LimbBits THEN <<>>
  ELSE BDivSmall(SubSeq(a, (k \div LimbBits) + 1, Len(a)), 2 ^ (k % LimbBits)).q

\* a mod 2^k.
BLowBits(a, k) == BSub(a, BShl(BShr(a, k), k))

Zero == [neg |-> FALSE, m |-> <<>>, e |-> 0]

\* The one representation of (-1)^neg * m * 2^e: the mantissa made odd.
RECURSIVE Canon(_, _, _)
Canon(neg, m, e) ==
  IF m = <<>> THEN Zero
  ELSE IF m[1] = 0 THEN Canon(neg, Tail(m), e + LimbBits)
  ELSE IF m[1] % 2 = 0 THEN Canon(neg, BShr(m, 1), e + 1)
  ELSE [neg |-> neg, m |-> m, e |-> e]

\* (-1)^neg * (m + s) * 2^e, 0 <= s < 1 and s > 0 iff sticky, rounded to
\* Precision bits, ties to even.
Round53(neg, m, e, sticky) ==
  LET n == BBitLen(m)
  IN  IF n <= Precision THEN Canon(neg, m, e)
      ELSE LET d == n - Precision
               q == BShr(m, d)
               c == BCmp(BLowBits(m, d), BShl(<<1>>, d - 1))
               up == c = 1 \/ (c = 0 /\ (sticky \/ q[1] % 2 = 1))
           IN  Canon(neg, IF up THEN BAdd(q, <<1>>) ELSE q, e + d)

\* The number an integer literal denotes.
FromInt(n) == Canon(n < 0, BFromNat(Abs(n)), 0)

FNeg(x) == IF x = Zero THEN Zero ELSE [x EXCEPT !.neg = ~x.neg]

\* x + y
FAdd(x, y) ==
  LET emin == IF x.e < y.e THEN x.e ELSE y.e
      a == BShl(x.m, x.e - emin)
      b == BShl(y.m, y.e - emin)
      c == BCmp(a, b)
  IN  IF x.neg = y.neg THEN Round53(x.neg, BAdd(a, b), emin, FALSE)
      ELSE IF c = 0 THEN Zero
      ELSE IF c = 1 THEN Round53(x.neg, BSub(a, b), emin, FALSE)
      ELSE Round53(y.neg, BSub(b, a), emin, FALSE)

\* x * k for an integer k, 0 < k < Base.
FMulSmall(x, k) == Round53(x.neg, BMulSmall(x.m, k), x.e, FALSE)

\* x / d for an integer d, 0 < d < 2^14: the quotient is taken with 75
\* more bits than the mantissa, the remainder is the sticky bit.
FDivSmall(x, d) ==
  IF x = Zero THEN Zero
  ELSE LET qr == BDivSmall(<<0, 0, 0, 0, 0>> \o x.m, d)
       IN  Round53(x.neg, qr.q, x.e - 5 * LimbBits, qr.r # 0)

\* x > y
FGreater(x, y) ==
  LET d == FAdd(x, FNeg(y)) IN d # Zero /\ ~d.neg

\* Math.round(x): the nearest integer, a tie going to the greater one.
MathRound(x) ==
  IF x.e >= 0 THEN x
  ELSE LET k == -x.e
           i == BShr(x.m, k)
           c == BCmp(BLowBits(x.m, k), BShl(<<1>>, k - 1))
           up == IF x.neg THEN c = 1 ELSE c >= 0
       IN  Canon(x.neg, IF up THEN BAdd(i, <<1>>) ELSE i, 0)

\* Math.round(result * 100) / 100
RoundToHundredths(x) == FDivSmall(MathRound(FMulSmall(x, Scale)), Scale)

\* A draw of Math.floor(Math.random() * 10): one value too many.
RandomDrawTen(seed, k) == (4 + 8 * k + 8 * k * k + seed * (k + 1)) % 10

\* Math.floor(Math.random() * 9) for the k-th draw of the stream `seed`.
RandomDraw(seed, k) == (4 + 8 * k + 8 * k * k + seed * (k + 1)) % 9

\* The template string `${i}-${j}-${id++}`.
CellId(i, j, id) == ToString(i) \o "-" \o ToString(j) \o "-" \o ToString(id)

\* The cells are pushed row by row, so the counter id is i * GRID_SIZE + j
\* when cell (i, j) is made.
generateInitialGrid(seed) ==
  [i \in Index |-> [j \in Index |->
     [value |-> RandomDraw(seed, i * GRID_SIZE + j) + 1,
      used  |-> FALSE,
      id    |-> CellId(i, j, i * GRID_SIZE + j)]]]

\* getDirection with the two vertical cases exchanged (up subtracts, down adds).
getDirectionUpDown(fromRow, fromCol, toRow, toCol) ==
  LET rowDiff == toRow - fromRow
      colDiff == toCol - fromCol
  IN  IF Abs(rowDiff) > 1 \/ Abs(colDiff) > 1 THEN "null"
      ELSE IF rowDiff = 0 /\ colDiff = 0 THEN "null"
      ELSE IF rowDiff = 0 /\ colDiff = 1 THEN "add"
      ELSE IF rowDiff = 1 /\ colDiff = 0 THEN "add"
      ELSE IF rowDiff = 0 /\ colDiff = -1 THEN "subtract"
      ELSE IF rowDiff = -1 /\ colDiff = 0 THEN "subtract"
      ELSE IF colDiff = 1 THEN "multiply"
      ELSE "divide"

\* getDirection deciding by the sign of the differences, without the
\* distance test: a cell two or three steps away resolves to an operation.
getDirectionBySign(fromRow, fromCol, toRow, toCol) ==
  LET rowDiff == toRow - fromRow
      colDiff == toCol - fromCol
  IN  IF rowDiff = 0 /\ colDiff = 0 THEN "null"
      ELSE IF rowDiff = 0 /\ colDiff > 0 THEN "add"
      ELSE IF rowDiff < 0 /\ colDiff = 0 THEN "add"
      ELSE IF rowDiff = 0 /\ colDiff < 0 THEN "subtract"
      ELSE IF rowDiff > 0 /\ colDiff = 0 THEN "subtract"
      ELSE IF colDiff > 0 THEN "multiply"
      ELSE "divide"

getDirection(fromRow, fromCol, toRow, toCol) ==
  LET rowDiff == toRow - fromRow
      colDiff == toCol - fromCol
  IN  IF Abs(rowDiff) > 1 \/ Abs(colDiff) > 1 THEN "null"
      ELSE IF rowDiff = 0 /\ colDiff = 0 THEN "null"
      ELSE IF rowDiff = 0 /\ colDiff = 1 THEN "add"
      ELSE IF rowDiff = -1 /\ colDiff = 0 THEN "add"
      ELSE IF rowDiff = 0 /\ colDiff = -1 THEN "subtract"
      ELSE IF rowDiff = 1 /\ colDiff = 0 THEN "subtract"
      ELSE IF rowDiff = -1 /\ colDiff = 1 THEN "multiply"
      ELSE IF rowDiff = 1 /\ colDiff = 1 THEN "multiply"
      ELSE IF rowDiff = -1 /\ colDiff = -1 THEN "divide"
      ELSE IF rowDiff = 1 /\ colDiff = -1 THEN "divide"
      ELSE "null"

\* The switch with the operands of the subtraction exchanged.
ComputeResultReversed(operation, cur, tv) ==
  CASE operation = "add"      -> FAdd(cur, FromInt(tv))
    [] operation = "subtract" -> FAdd(FromInt(tv), FNeg(cur))
    [] operation = "multiply" -> FMulSmall(cur, tv)
    [] operation = "divide"   ->
         RoundToHundredths(IF tv # 0 THEN FDivSmall(cur, tv) ELSE cur)

\* The switch of performOperation; cur is a number, tv is a cell value.
ComputeResult(operation, cur, tv) ==
  CASE operation = "add"      -> FAdd(cur, FromInt(tv))
    [] operation = "subtract" -> FAdd(cur, FNeg(FromInt(tv)))
    [] operation = "multiply" -> FMulSmall(cur, tv)
    [] operation = "divide"   ->
         RoundToHundredths(IF tv # 0 THEN FDivSmall(cur, tv) ELSE cur)

\* The copy with the indices exchanged: newGrid[col][row].used = true.
MarkUsedTransposed(g, row, col) ==
  [g EXCEPT ![col] = [g[col] EXCEPT ![row] = [g[col][row] EXCEPT !.used = TRUE]]]

\* A copy in which the whole row of the target is marked.
MarkUsedRow(g, row, col) ==
  [g EXCEPT ![row] = [j \in Index |-> [g[row][j] EXCEPT !.used = TRUE]]]

\* A copy that keeps the values and sets used on the target alone.
MarkUsedOnly(g, row, col) ==
  [i \in Index |-> [j \in Index |->
     [g[i][j] EXCEPT !.used = (i = row /\ j = col)]]]

\* grid.map(r => r.map(c => ({...c}))) with newGrid[row][col].used = true.
MarkUsed(g, row, col) ==
  [g EXCEPT ![row] = [g[row] EXCEPT ![col] = [g[row][col] EXCEPT !.used = TRUE]]]

\* setScore(result) without the comparison.
ScoreAlways(result, sc) == result

\* if (result > score) setScore(result)
ScoreAfter(result, sc) == IF FGreater(result, sc) THEN result ELSE sc

\* The cells that the two loops of getAvailableMoves visit around (row, col),
\* in the order of the visit.
Neighbourhood(row, col) ==
  [k \in 1 .. 9 |-> [row |-> (row - 1) + ((k - 1) \div 3),
                      col |-> (col - 1) + ((k - 1) % 3)]]

\* getAvailableMoves without the test of the used flag.
getAvailableMovesAnyCell ==
  IF selectedCell = null THEN <<>>
  ELSE LET row == Get(selectedCell).row
           col == Get(selectedCell).col
           Pushed(p) ==
             /\ p.row >= 0 /\ p.row < GRID_SIZE /\ p.col >= 0 /\ p.col < GRID_SIZE
             /\ ~(p.row = row /\ p.col = col)
             /\ getDirection(row, col, p.row, p.col) # "null"
           visited == SelectSeq(Neighbourhood(row, col), Pushed)
       IN  [k \in 1 .. Len(visited) |->
              [row |-> visited[k].row, col |-> visited[k].col,
               operation |-> getDirection(row, col, visited[k].row, visited[k].col)]]

getAvailableMoves ==
  IF selectedCell = null THEN <<>>
  ELSE LET row == Get(selectedCell).row
           col == Get(selectedCell).col
           Pushed(p) ==
             /\ p.row >= 0 /\ p.row < GRID_SIZE /\ p.col >= 0 /\ p.col < GRID_SIZE
             /\ ~grid[p.row][p.col].used
             /\ ~(p.row = row /\ p.col = col)
             /\ getDirection(row, col, p.row, p.col) # "null"
           visited == SelectSeq(Neighbourhood(row, col), Pushed)
       IN  [k \in 1 .. Len(visited) |->
              [row |-> visited[k].row, col |-> visited[k].col,
               operation |-> getDirection(row, col, visited[k].row, visited[k].col)]]

isAvailableMove(row, col) ==
  IF selectedCell = null THEN FALSE
  ELSE LET available == getAvailableMoves
       IN  \E k \in 1 .. Len(available) :
             available[k].row = row /\ available[k].col = col

\* moves.find(...)?.operation || null
getOperationForCell(row, col) ==
  IF selectedCell = null THEN "null"
  ELSE LET available == getAvailableMoves
           found == {k \in 1 .. Len(available) :
                       available[k].row = row /\ available[k].col = col}
       IN  IF found = {} THEN "null"
           ELSE available[CHOOSE k \in found : \A l \in found : k <= l].operation

\* The effect without the gameOver test of its first line.
GameOverCheckAgain(g, sel, cv, go) ==
  IF sel = null \/ cv = null THEN FALSE
  ELSE LET row == Get(sel).row
           col == Get(sel).col
       IN  \A r \in (row - 1) .. (row + 1), c \in (col - 1) .. (col + 1) :
             (r >= 0 /\ r < GRID_SIZE /\ c >= 0 /\ c < GRID_SIZE)
               => (g[r][c].used \/ (r = row /\ c = col))

\* The effect with the test of the neighbours left out: only a full grid
\* ends the game.
GameOverCheckAllUsed(g, sel, cv, go) ==
  IF sel = null \/ cv = null \/ go THEN FALSE
  ELSE Cardinality({p \in Index \X Index : ~g[p[1]][p[2]].used}) = 0

\* The body of the game-over effect, for the values of one render: TRUE when
\* it calls setGameOver(true).
GameOverCheck(g, sel, cv, go) ==
  IF sel = null \/ cv = null \/ go THEN FALSE
  ELSE LET row == Get(sel).row
           col == Get(sel).col
           availableCells ==
             Cardinality({p \in Index \X Index : ~g[p[1]][p[2]].used})
           hasAvailableMoves ==
             \E r \in (row - 1) .. (row + 1), c \in (col - 1) .. (col + 1) :
               /\ r >= 0 /\ r < GRID_SIZE /\ c >= 0 /\ c < GRID_SIZE
               /\ ~g[r][c].used
               /\ ~(r = row /\ c = col)
       IN  availableCells = 0 \/ ~hasAvailableMoves

\* The value of gameOver after a render that was started by a handler which
\* left `go` in the queue: an effect still pending from the previous commit
\* is flushed first, with the values of that commit, and its
\* setGameOver(true) is queued behind the handler's updates.
FlushedGameOver(go) ==
  IF effectPending /\ GameOverCheck(grid, selectedCell, currentValue, gameOver)
  THEN TRUE ELSE go

(***************************************************************************)
(* Arrays and objects.  A grid is the arrays of one map or generator call, *)
(* addressed by a generation n, whose place (i, j) holds a reference to a  *)
(* cell object; the cell object built for place (i, j) by the call of      *)
(* generation n has the address <<n, i, j>>.  The row arrays are never     *)
(* written after they are built, so they are not told apart from the       *)
(* array that holds them.                                                  *)
(***************************************************************************)
Gen == 0 .. 2

Restrict(f, S) == [x \in S |-> f[x]]

\* What stays once only the arrays in roots are referenced.
Collect(h, roots) ==
  LET liveCells == {h.grids[r][i][j] : r \in roots, i \in Index, j \in Index}
  IN  [grids |-> Restrict(h.grids, roots),
       cells |-> Restrict(h.cells, liveCells)]

\* The generations with an array or an object that is reached from roots.
LiveGens(h, roots) == roots \cup {h.grids[r][i][j][1] : r \in roots, i \in Index, j \in Index}

\* The address that the next allocation gets: the least one that is free
\* once the arrays nobody keeps are collected.
FreshGen(h, roots) ==
  CHOOSE n \in Gen \ LiveGens(h, roots) : \A m \in Gen \ LiveGens(h, roots) : n <= m

\* grid[i][j] read through the reference r, for every i and j.
Deref(h, r) ==
  [i \in Index |-> [j \in Index |-> h.cells[h.grids[r][i][j]]]]

\* New arrays and new cell objects, in generation n, holding the cells g:
\* the literals and push calls of generateInitialGrid, and the object
\* spread {...c} inside the two map calls.
AllocGrid(h, n, g) ==
  [grids |-> (n :> [i \in Index |-> [j \in Index |-> <<n, i, j>>]]) @@ h.grids,
   cells |-> [a \in {<<n, p[1], p[2]>> : p \in Index \X Index} |->
                g[a[2]][a[3]]] @@ h.cells]

\* grid.map(r => [...r]): new arrays that hold the old cell objects.
CopyGridRows(h, c, n) ==
  [grids |-> (n :> h.grids[c]) @@ h.grids,
   cells |-> h.cells]

\* grid.map(r => r.map(c => ({ ...c })))
CopyGrid(h, c, n) == AllocGrid(h, n, Deref(h, c))

\* newGrid[row][col].used = true: an assignment to the object at that place.
SetUsed(h, r, row, col) ==
  [h EXCEPT !.cells[h.grids[r][row][col]].used = TRUE]

\* The references that a reader of earlier state still holds.
Kept == IF snapRef = null THEN {} ELSE {Get(snapRef)}

\* Spec and SpecDir hold the grid by value: no array is modelled there.
NoHeap ==
  /\ heap = [grids |-> <<>>, cells |-> <<>>]
  /\ gridRef = 0
  /\ snapRef = null
  /\ snapValue = null

InitGame ==
  /\ \E seed \in Seeds : grid = generateInitialGrid(seed)
  /\ currentValue = null
  /\ selectedCell = null
  /\ score = Zero
  /\ moves = 0
  /\ gameOver = FALSE
  /\ effectPending = TRUE
  /\ lastTap = "none"
  /\ dFrom = null /\ dTo = null /\ dOp = "unresolved"

Init == InitGame /\ NoHeap

resetGame(seed) ==
  /\ moves' = 0
  /\ selectedCell' = null
  /\ currentValue' = null
  /\ score' = Zero
  /\ grid' = generateInitialGrid(seed)
  /\ gameOver' = FlushedGameOver(FALSE)
  /\ effectPending' = TRUE
  /\ lastTap' = "none"
  /\ UNCHANGED dirVars

\* handleCellPress throws before it changes anything.
Throws(row, col) ==
  /\ lastTap' = "TypeError"
  /\ UNCHANGED <<gameState, effectPending, dirVars>>

\* handleCellPress returns without calling a setter: no render follows.
Ignored ==
  /\ lastTap' = "ignored"
  /\ UNCHANGED <<gameState, effectPending, dirVars>>

\* The first selection without setMoves(moves + 1).
FirstSelectionNoMove(row, col) ==
  /\ moves' = moves
  /\ selectedCell' = Some([row |-> row, col |-> col])
  /\ currentValue' = Some(FromInt(grid[row][col].value))
  /\ grid' = MarkUsed(grid, row, col)
  /\ score' = score
  /\ gameOver' = FlushedGameOver(gameOver)
  /\ effectPending' = TRUE
  /\ lastTap' = "accepted"
  /\ UNCHANGED dirVars

FirstSelection(row, col) ==
  /\ moves' = moves + 1
  /\ selectedCell' = Some([row |-> row, col |-> col])
  /\ currentValue' = Some(FromInt(grid[row][col].value))
  /\ grid' = MarkUsed(grid, row, col)
  /\ score' = score
  /\ gameOver' = FlushedGameOver(gameOver)
  /\ effectPending' = TRUE
  /\ lastTap' = "accepted"
  /\ UNCHANGED dirVars

performOperation(targetRow, targetCol, operation) ==
  IF currentValue = null \/ selectedCell = null THEN Ignored
  ELSE IF grid[targetRow][targetCol].used THEN Ignored
  ELSE IF operation \notin {"add", "subtract", "multiply", "divide"} THEN Ignored
  ELSE LET result ==
             ComputeResult(operation, Get(currentValue),
                           grid[targetRow][targetCol].value)
       IN  /\ moves' = moves + 1
           /\ selectedCell' = Some([row |-> targetRow, col |-> targetCol])
           /\ currentValue' = Some(result)
           /\ grid' = MarkUsed(grid, targetRow, targetCol)
           /\ score' = ScoreAfter(result, score)
           /\ gameOver' = FlushedGameOver(gameOver)
           /\ effectPending' = TRUE
           /\ lastTap' = "accepted"
           /\ UNCHANGED dirVars

InBounds(row, col) == row \in Index /\ col \in Index

handleCellPress(row, col) ==
  IF ~InBounds(row, col) THEN Throws(row, col)
  ELSE IF grid[row][col].used \/ gameOver THEN Ignored
  ELSE IF currentValue = null THEN FirstSelection(row, col)
  ELSE IF selectedCell = null THEN Throws(row, col)
  ELSE LET operation ==
             getDirection(Get(selectedCell).row, Get(selectedCell).col, row, col)
       IN  IF operation # "null"
           THEN performOperation(row, col, operation)
           ELSE Ignored

\* The pending game-over effect runs before any further input.
RunEffect ==
  /\ effectPending
  /\ IF GameOverCheck(grid, selectedCell, currentValue, gameOver)
     THEN gameOver' = TRUE /\ effectPending' = TRUE
     ELSE gameOver' = gameOver /\ effectPending' = FALSE
  /\ UNCHANGED <<grid, currentValue, selectedCell, score, moves, lastTap, dirVars>>
  /\ UNCHANGED heapVars

\* handleCellPress(row, col) reaches its setters: none of its returns, and
\* none of those of performOperation, is taken.
Accepts(row, col) ==
  IF ~InBounds(row, col) THEN FALSE
  ELSE IF grid[row][col].used \/ gameOver THEN FALSE
  ELSE IF currentValue = null THEN TRUE
  ELSE IF selectedCell = null THEN FALSE
  ELSE getDirection(Get(selectedCell).row, Get(selectedCell).col, row, col) # "null"

\* The tap (row, col) does not take the session past MaxMoves accepted taps.
WithinCap(row, col) ==
  IF moves < MaxMoves THEN TRUE ELSE ~Accepts(row, col)

Tap == \E p \in TapCoords :
         /\ WithinCap(p[1], p[2])
         /\ handleCellPress(p[1], p[2])
         /\ moves' <= MaxMoves
         /\ UNCHANGED heapVars

Reset == (\E seed \in Seeds : resetGame(seed)) /\ UNCHANGED heapVars

Next == Tap \/ Reset \/ RunEffect

Spec == Init /\ [][Next]_vars

(***************************************************************************)
(* The Direction Resolver on its own: every pair of grid coordinates is    *)
(* drawn as an input and getDirection is applied to it.                    *)
(***************************************************************************)
InitDir ==
  /\ \E seed \in Seeds : grid = generateInitialGrid(seed)
  /\ currentValue = null
  /\ selectedCell = null
  /\ score = Zero
  /\ moves = 0
  /\ gameOver = FALSE
  /\ effectPending = TRUE
  /\ lastTap = "none"
  /\ dFrom \in {Some(p) : p \in Coord}
  /\ dTo \in {Some(p) : p \in Coord}
  /\ dOp = "unresolved"
  /\ NoHeap

Resolve ==
  /\ dOp = "unresolved"
  /\ dOp' = getDirection(Get(dFrom).row, Get(dFrom).col, Get(dTo).row, Get(dTo).col)
  /\ UNCHANGED <<gameState, effectPending, lastTap, dFrom, dTo, heapVars>>

NextDir == Resolve

SpecDir == InitDir /\ [][NextDir]_vars

(***************************************************************************)
(* One session played to its end, without a reset and without a cap on the *)
(* moves.  The player opens along the rows, left to right and back, for    *)
(* all but the last FreeCells cells of that path, and taps any coordinate  *)
(* from there on; a player who is offered an accepted tap again and again  *)
(* takes one, and the game-over effect runs whenever it is pending.        *)
(***************************************************************************)
OpeningCell(k) ==
  LET row == k \div GRID_SIZE
  IN  [row |-> row,
       col |-> IF row % 2 = 0 THEN k % GRID_SIZE
               ELSE (GRID_SIZE - 1) - (k % GRID_SIZE)]

OpeningLen == GRID_SIZE * GRID_SIZE - FreeCells

OpeningTap ==
  /\ moves < OpeningLen
  /\ handleCellPress(OpeningCell(moves).row, OpeningCell(moves).col)
  /\ UNCHANGED heapVars

PlayTap ==
  /\ moves >= OpeningLen
  /\ \E p \in TapCoords : handleCellPress(p[1], p[2])
  /\ UNCHANGED heapVars

\* A step of the player that is an accepted tap: the steps that add one to
\* moves, which are possible when some tap is accepted.
AcceptedTap ==
  /\ IF moves < OpeningLen
     THEN Accepts(OpeningCell(moves).row, OpeningCell(moves).col)
     ELSE \E p \in TapCoords : Accepts(p[1], p[2])
  /\ moves' = moves + 1

NextPlay == OpeningTap \/ PlayTap \/ RunEffect

SpecPlay ==
  Init /\ [][NextPlay]_vars /\ WF_moves(AcceptedTap) /\ WF_vars(RunEffect)

(***************************************************************************)
(* The game with the arrays and objects behind the grid state, and a       *)
(* reader that keeps a reference to the grid of an earlier state.          *)
(***************************************************************************)
InitHeap ==
  /\ InitGame
  /\ heap = AllocGrid([grids |-> <<>>, cells |-> <<>>], 0, grid)
  /\ gridRef = 0
  /\ snapRef = null
  /\ snapValue = null

\* An accepted tap: newGrid is the copy, the target is marked in it, and
\* setGrid(newGrid) makes it the grid of the next render.  The arrays of
\* the old grid are collected unless a reader keeps them.
HeapTap ==
  /\ moves < MaxHeapMoves
  /\ \E p \in Index \X Index :
       /\ handleCellPress(p[1], p[2])
       /\ lastTap' = "accepted"
       /\ gridRef' = FreshGen(heap, Kept)
       /\ \E copy \in {CopyGrid(heap, gridRef, gridRef')} :
            \E newGrid \in {SetUsed(copy, gridRef', p[1], p[2])} :
              heap' = Collect(newGrid, {gridRef'} \cup Kept)
  /\ UNCHANGED <<snapRef, snapValue>>

\* setGrid(generateInitialGrid())
HeapReset ==
  /\ \E seed \in Seeds : resetGame(seed)
  /\ gridRef' = FreshGen(heap, Kept)
  /\ \E newGrid \in {AllocGrid(heap, gridRef', grid')} :
       heap' = Collect(newGrid, {gridRef'} \cup Kept)
  /\ UNCHANGED <<snapRef, snapValue>>

\* A reader keeps the grid of the current state, in place of the one it
\* kept before.
TakeSnapshot ==
  /\ snapRef # Some(gridRef)
  /\ snapRef' = Some(gridRef)
  /\ snapValue' = Some(Deref(heap, gridRef))
  /\ heap' = Collect(heap, {gridRef})
  /\ UNCHANGED <<gameState, effectPending, lastTap, dirVars, gridRef>>

NextHeap == HeapTap \/ HeapReset \/ RunEffect \/ TakeSnapshot

SpecHeap == InitHeap /\ [][NextHeap]_vars

(***************************************************************************)
(* Vocabulary of the properties.                                           *)
(***************************************************************************)
Max(a, b) == IF a >= b THEN a ELSE b

\* Chebyshev distance between two coordinates.
Chebyshev(fromRow, fromCol, toRow, toCol) ==
  Max(Abs(toRow - fromRow), Abs(toCol - fromCol))

\* The operation the direction table of the game gives for a pair.
TableOp(fromRow, fromCol, toRow, toCol) ==
  LET dr == toRow - fromRow
      dc == toCol - fromCol
  IN  IF Chebyshev(fromRow, fromCol, toRow, toCol) # 1 THEN "null"
      ELSE IF (dr = 0 /\ dc = 1) \/ (dr = -1 /\ dc = 0) THEN "add"
      ELSE IF (dr = 0 /\ dc = -1) \/ (dr = 1 /\ dc = 0) THEN "subtract"
      ELSE IF dc = 1 THEN "multiply"
      ELSE "divide"

\* (row, col) is unused and one of the 8 neighbours of the selected cell.
AcceptedTarget(row, col) ==
  /\ currentValue # null /\ selectedCell # null /\ ~gameOver
  /\ ~grid[row][col].used
  /\ Chebyshev(Get(selectedCell).row, Get(selectedCell).col, row, col) = 1

AllUnused(g) == \A i \in Index, j \in Index : ~g[i][j].used

\* No in-bounds neighbour of the selected cell, itself excluded, is unused.
NeighbourhoodExhausted ==
  \A p \in Coord :
    Chebyshev(Get(selectedCell).row, Get(selectedCell).col, p.row, p.col) = 1
      => grid[p.row][p.col].used

(***************************************************************************)
(* C1. Direction Resolver: for every pair of coordinates of the 4x4 grid   *)
(* getDirection returns null iff the Chebyshev distance of the pair is not *)
(* exactly 1, and otherwise add for right or up, subtract for left or      *)
(* down, multiply for up-right or down-right, divide for up-left or        *)
(* down-left, whatever the grid holds.                                     *)
(***************************************************************************)
C1_DirectionTable ==
  dOp # "unresolved" =>
    dOp = TableOp(Get(dFrom).row, Get(dFrom).col, Get(dTo).row, Get(dTo).col)

C1_Witness ==
  /\ dFrom = Some([row |-> 1, col |-> 1])
  /\ dTo = Some([row |-> 2, col |-> 0])
  /\ dOp = "divide"

(***************************************************************************)
(* C2. attemptMove on an accepted target (selection active, game not over, *)
(* target unused and adjacent to the selected cell) with operation add,    *)
(* subtract or multiply: the new running value is the old one combined     *)
(* with the target value by that operation, the target becomes used and    *)
(* selected, moves grows by exactly 1, and score becomes the new value if  *)
(* that is greater than the old score.  Stated of every step in which a    *)
(* tap was accepted.                                                       *)
(***************************************************************************)
C2_AcceptedMove ==
  [][\/ lastTap' # "accepted"
     \/ selectedCell = null
     \/ currentValue = null
     \/ gameOver
     \/ \A row \in Index, col \in Index :
          LET op == getDirection(Get(selectedCell).row, Get(selectedCell).col, row, col)
              cur == Get(currentValue)
              tv == grid[row][col].value
              new == IF op = "add" THEN FAdd(cur, FromInt(tv))
                     ELSE IF op = "subtract" THEN FAdd(cur, FNeg(FromInt(tv)))
                     ELSE FMulSmall(cur, tv)
          IN  (/\ Chebyshev(Get(selectedCell).row, Get(selectedCell).col, row, col) = 1
               /\ ~grid[row][col].used
               /\ op \in {"add", "subtract", "multiply"}
               /\ handleCellPress(row, col))
              => /\ currentValue' = Some(new)
                 /\ grid'[row][col].used
                 /\ selectedCell' = Some([row |-> row, col |-> col])
                 /\ moves' = moves + 1
                 /\ score' = (IF FGreater(new, score) THEN new ELSE score)]_vars

\* On the grid of stream 0: 5 at (0,0), then right to (0,1) adds 3 and gives
\* 8, then down-right to (1,2) multiplies by 8 and gives 64.
C2_Witness ==
  /\ moves = 3
  /\ selectedCell = Some([row |-> 1, col |-> 2])
  /\ grid[0][0].used /\ grid[0][1].used
  /\ grid[0][0].value = 5 /\ grid[0][1].value = 3 /\ grid[1][2].value = 8
  /\ currentValue = Some(FromInt(64))
  /\ score = FromInt(64)

(***************************************************************************)
(* C3. Illegal taps are no-ops: a tap on an in-bounds cell that is already *)
(* used, or that is not adjacent to the selected cell while a selection is *)
(* active, or any tap while the game is over, leaves grid, currentValue,   *)
(* selectedCell, score, moves and gameOver unchanged, in every reachable   *)
(* state (so also when the tap is repeated).                               *)
(***************************************************************************)
IllegalTap(row, col) ==
  \/ grid[row][col].used
  \/ gameOver
  \/ /\ selectedCell # null
     /\ Chebyshev(Get(selectedCell).row, Get(selectedCell).col, row, col) # 1

C3_IllegalTapNoOp ==
  [][\/ UNCHANGED gameState
     \/ \A row \in Index, col \in Index :
          ~(IllegalTap(row, col) /\ handleCellPress(row, col))]_vars

\* A tap was rejected in the middle of a game.
C3_Witness ==
  /\ lastTap = "ignored"
  /\ selectedCell # null
  /\ ~gameOver
  /\ moves = 2

(***************************************************************************)
(* C4. Terminal Detector: once the game-over check that follows a state    *)
(* change has run, gameOver is true if and only if a cell is selected and  *)
(* no in-bounds neighbour of it is unused.                                 *)
(***************************************************************************)
C4_TerminalIff ==
  ~effectPending =>
    (gameOver <=> (selectedCell # null /\ NeighbourhoodExhausted))

(***************************************************************************)
(* C5. Score is a running maximum of the running value: whenever           *)
(* currentValue is not null, score >= currentValue, after the first        *)
(* selection as well as after every later move.                            *)
(***************************************************************************)
C5_ScoreAtLeastValue ==
  currentValue # null => ~FGreater(Get(currentValue), score)

(***************************************************************************)
(* C6. Score never decreases within a session: a step that lowers score is *)
(* a reset, and it lowers it to 0.                                         *)
(***************************************************************************)
C6_ScoreMonotone ==
  [][score' = score \/ ~FGreater(score, score') \/ (Reset /\ score' = Zero)]_vars

\* A later move has lowered the running value below the score it kept.
C6_Witness ==
  /\ currentValue # null
  /\ moves >= 3
  /\ FGreater(score, Zero)
  /\ FGreater(score, Get(currentValue))

(***************************************************************************)
(* C7. gameOver is never true while selectedCell is null, under every      *)
(* interleaving of taps, resets and the game-over check.                   *)
(***************************************************************************)
C7_GameOverNeedsSelection ==
  gameOver => selectedCell # null

(***************************************************************************)
(* C8. A tap whose row or column is outside the grid leaves the game state *)
(* unchanged and raises nothing.                                           *)
(***************************************************************************)
C8_OutOfBoundsSilent ==
  [][\A p \in OutOfBounds :
       handleCellPress(p[1], p[2])
         => (UNCHANGED gameState /\ lastTap' # "TypeError")]_vars

(***************************************************************************)
(* C9. Whenever selectedCell is not null, the grid cell at selectedCell is *)
(* used.                                                                   *)
(***************************************************************************)
C9_SelectedIsUsed ==
  selectedCell # null =>
    grid[Get(selectedCell).row][Get(selectedCell).col].used

\* A selection that was reached by moves off the diagonal of the grid.
C9_Witness ==
  /\ selectedCell # null
  /\ moves = 3
  /\ Get(selectedCell).row # Get(selectedCell).col

(***************************************************************************)
(* C10. reset from any reachable state yields a freshly initialised state: *)
(* currentValue and selectedCell null, score 0, moves 0, gameOver false    *)
(* and a grid in which all 16 cells are unused.                            *)
(***************************************************************************)
C10_ResetFresh ==
  [][Reset =>
       /\ currentValue' = null
       /\ selectedCell' = null
       /\ score' = Zero
       /\ moves' = 0
       /\ gameOver' = FALSE
       /\ AllUnused(grid')]_vars

(***************************************************************************)
(* C11. selectFirst: with no active selection (currentValue null) and the  *)
(* game not over, a tap on any unused in-bounds cell is accepted, wherever *)
(* the cell lies; it marks exactly that cell used, sets currentValue to    *)
(* the cell's value and selectedCell to its coordinate, and takes moves    *)
(* from 0 to 1; the used flag of every other cell and the value of every   *)
(* cell stay as they were.                                                 *)
(***************************************************************************)
SelectFirstPost(row, col) ==
  /\ lastTap' = "accepted"
  /\ currentValue' = Some(FromInt(grid[row][col].value))
  /\ selectedCell' = Some([row |-> row, col |-> col])
  /\ moves = 0 /\ moves' = 1
  /\ \A i \in Index, j \in Index :
       /\ grid'[i][j].value = grid[i][j].value
       /\ grid'[i][j].used = (grid[i][j].used \/ (i = row /\ j = col))

C11_SelectFirst ==
  /\ [](currentValue = null /\ ~gameOver =>
         \A row \in Index, col \in Index :
           ~grid[row][col].used =>
             ENABLED (handleCellPress(row, col) /\ lastTap' = "accepted"))
  /\ [][\/ lastTap' # "accepted"
        \/ currentValue # null
        \/ gameOver
        \/ \A row \in Index, col \in Index :
             (~grid[row][col].used /\ handleCellPress(row, col))
               => SelectFirstPost(row, col)]_vars

\* A first selection away from the corners and the diagonal, on a fresh grid.
C11_Witness ==
  /\ moves = 1
  /\ lastTap = "accepted"
  /\ selectedCell = Some([row |-> 2, col |-> 1])
  /\ currentValue = Some(FromInt(grid[2][1].value))
  /\ \A i \in Index, j \in Index : grid[i][j].used = (i = 2 /\ j = 1)

(***************************************************************************)
(* C12. Each number is used at most once: between two resets a used flag   *)
(* only changes from false to true, a used cell is never accepted as the   *)
(* target of a tap, and no step other than a reset changes the value of a  *)
(* cell; every accepted tap sets the used flag of its target and of no     *)
(* other cell.                                                             *)
(***************************************************************************)
OnlyTargetFlips(row, col) ==
  \A i \in Index, j \in Index :
    /\ grid'[i][j].value = grid[i][j].value
    /\ grid'[i][j].id = grid[i][j].id
    /\ grid'[i][j].used = (grid[i][j].used \/ (i = row /\ j = col))

C12_UsedOnce ==
  [][\/ UNCHANGED grid /\ moves' = moves
     \/ Reset
     \/ /\ lastTap' = "accepted"
        /\ \A row \in Index, col \in Index :
             grid[row][col].used => ~handleCellPress(row, col)
        /\ \E row \in Index, col \in Index :
             /\ ~grid[row][col].used
             /\ OnlyTargetFlips(row, col)
             /\ handleCellPress(row, col)]_vars

\* Three accepted taps have used three cells, the last one being selected.
C12_Witness ==
  /\ moves = 3
  /\ lastTap = "accepted"
  /\ Cardinality({p \in Index \X Index : grid[p[1]][p[2]].used}) = 3
  /\ selectedCell # null
  /\ grid[Get(selectedCell).row][Get(selectedCell).col].used

(***************************************************************************)
(* C13. Divide leaves a running value rounded to the nearest hundredth,    *)
(* and so in every reachable state a running value that is not null is a   *)
(* multiple of 0.01: it is the number that rounding it to hundredths       *)
(* gives back.                                                             *)
(***************************************************************************)
C13_TwoDecimals ==
  currentValue # null =>
    RoundToHundredths(Get(currentValue)) = Get(currentValue)

(***************************************************************************)
(* C14. Grid Generator: the grid of the first render and the grid of every *)
(* reset has 4 rows of 4 cells, every value an integer from 1 to 9, every  *)
(* cell unused and the 16 ids pairwise distinct; shape, range of values    *)
(* and distinctness of ids then hold in every reachable state.             *)
(***************************************************************************)
GridWellFormed(g) ==
  /\ DOMAIN g = Index
  /\ \A i \in Index : DOMAIN g[i] = Index
  /\ \A i \in Index, j \in Index :
       /\ g[i][j].value \in 1 .. 9
       /\ g[i][j].used \in BOOLEAN
  /\ Cardinality({g[p[1]][p[2]].id : p \in Index \X Index}) = GRID_SIZE * GRID_SIZE

C14_GridGenerator ==
  /\ AllUnused(grid)
  /\ [][Reset => AllUnused(grid')]_vars
  /\ [](GridWellFormed(grid))

\* The grid that a reset installed while the game-over effect of the last
\* move was still pending.
C14_Witness ==
  /\ moves = 0
  /\ gameOver
  /\ AllUnused(grid)
  /\ GridWellFormed(grid)

(***************************************************************************)
(* C15. availableMoves agrees with the Move Engine.  In every reachable    *)
(* state getAvailableMoves lists, once each, the unused in-bounds          *)
(* 8-neighbours of selectedCell, each with getDirection from selectedCell  *)
(* to it; it is empty when selectedCell is null and when gameOver is true. *)
(* While a selection is active, a tap on an in-bounds cell changes the     *)
(* game state exactly when the cell is listed, and the operation applied   *)
(* is the listed one.                                                      *)
(***************************************************************************)
UnusedNeighbours ==
  IF selectedCell = null THEN {}
  ELSE {[row |-> p[1], col |-> p[2],
         operation |-> getDirection(Get(selectedCell).row, Get(selectedCell).col,
                                    p[1], p[2])] :
          p \in {q \in Index \X Index :
                   /\ Chebyshev(Get(selectedCell).row, Get(selectedCell).col,
                                q[1], q[2]) = 1
                   /\ ~grid[q[1]][q[2]].used}}

AvailableMovesExact ==
  LET available == getAvailableMoves
  IN  /\ {available[k] : k \in 1 .. Len(available)} = UnusedNeighbours
      /\ Len(available) = Cardinality(UnusedNeighbours)
      /\ selectedCell = null => available = <<>>
      /\ gameOver => available = <<>>

C15_AvailableMoves ==
  /\ [](AvailableMovesExact)
  /\ [][\/ selectedCell = null
        \/ currentValue = null
        \/ IF UNCHANGED gameState
           THEN \* no listed cell's tap is this step
                LET available == getAvailableMoves
                IN  \A k \in 1 .. Len(available) :
                      ~handleCellPress(available[k].row, available[k].col)
           ELSE \* the cell whose tap is this step is listed
                \A row \in Index, col \in Index :
                  handleCellPress(row, col) =>
                    /\ isAvailableMove(row, col)
                    /\ currentValue' =
                         Some(ComputeResult(getOperationForCell(row, col),
                                            Get(currentValue),
                                            grid[row][col].value))]_vars

\* From (1,1), after (0,0) and (0,1) were used: six of the eight neighbours
\* are listed.
C15_Witness ==
  /\ lastTap = "accepted"
  /\ selectedCell = Some([row |-> 1, col |-> 1])
  /\ moves = 3
  /\ grid[0][0].used /\ grid[0][1].used
  /\ Len(getAvailableMoves) = 6
  /\ ~isAvailableMove(0, 0) /\ isAvailableMove(2, 2)
  /\ getOperationForCell(2, 2) = "multiply"

(***************************************************************************)
(* C16. Copy-on-write snapshots: every accepted tap and every reset puts a *)
(* new array in the grid state and writes to no array or cell object of an *)
(* earlier state, so the grid that a reader kept from an earlier state     *)
(* shows the used flags and values it showed when it was kept, after any   *)
(* later taps and resets.                                                  *)
(***************************************************************************)
SnapshotIntact ==
  snapRef # null => Deref(heap, Get(snapRef)) = Get(snapValue)

C16_CopyOnWrite ==
  SnapshotIntact /\ grid = Deref(heap, gridRef)

\* The grid kept after the first tap, while the current grid is the one
\* after the second tap.
C16_Witness ==
  /\ snapRef # null
  /\ Get(snapRef) # gridRef
  /\ moves = 2
  /\ Cardinality({p \in Index \X Index : Get(snapValue)[p[1]][p[2]].used}) = 1
  /\ Cardinality({p \in Index \X Index : Deref(heap, gridRef)[p[1]][p[2]].used}) = 2
  /\ \A p \in Index \X Index :
       Get(snapValue)[p[1]][p[2]].value = grid[p[1]][p[2]].value

(***************************************************************************)
(* C17. Every game ends: moves never exceeds 16, the number of cells, so   *)
(* at most 16 taps are accepted in a session; and in a session without a   *)
(* reset in which the player keeps taking an available target while there  *)
(* is one and the game-over effect runs when it is pending, gameOver       *)
(* eventually becomes true.                                                *)
(***************************************************************************)
C17_EveryGameEnds ==
  /\ [](moves <= GRID_SIZE * GRID_SIZE)
  /\ <>gameOver

\* The game that used all 16 cells.
C17_Witness ==
  /\ moves = GRID_SIZE * GRID_SIZE
  /\ gameOver
  /\ \A i \in Index, j \in Index : grid[i][j].used

(***************************************************************************)
(* C18. gameOver is absorbing until reset: from a state in which gameOver  *)
(* is true, a tap or a run of the game-over effect leaves grid,            *)
(* currentValue, selectedCell, score, moves and gameOver as they are, and  *)
(* a reset sets gameOver to false.                                         *)
(***************************************************************************)
C18_GameOverAbsorbing ==
  [][gameOver => IF Reset THEN ~gameOver' ELSE UNCHANGED gameState]_vars

\* A tap was rejected after the game ended in the corner (0,0).
C18_Witness ==
  /\ gameOver
  /\ lastTap = "ignored"
  /\ selectedCell = Some([row |-> 0, col |-> 0])
  /\ ~effectPending

(***************************************************************************)
(* C19. In every reachable state moves equals the number of cells whose    *)
(* used flag is true, so the Moves and Numbers Used figures of the end     *)
(* screen are equal.                                                       *)
(***************************************************************************)
UsedCells == Cardinality({p \in Index \X Index : grid[p[1]][p[2]].used})

C19_MovesCountUsed == moves = UsedCells

\* The end screen of a game of four moves.
C19_Witness ==
  /\ gameOver
  /\ moves = 4
  /\ UsedCells = 4
  /\ lastTap = "accepted"

(***************************************************************************)
(* C20. The pre-game state: currentValue is null exactly when selectedCell *)
(* is null; while they are null no cell is used, moves is 0, score is 0    *)
(* and gameOver is false; and while a cell is used neither is null.        *)
(***************************************************************************)
C20_PreGame ==
  /\ (currentValue = null) <=> (selectedCell = null)
  /\ currentValue = null =>
       /\ AllUnused(grid)
       /\ moves = 0
       /\ score = Zero
       /\ ~gameOver
  /\ ~AllUnused(grid) => (currentValue # null /\ selectedCell # null)

====
